---- MODULE Spec2Model ----
(***************************************************************************)
(* A model of track_sorter.py: find_target, sort_tracks, concat_tracks and *)
(* the control flow of cli.  File names and track titles are sequences of  *)
(* one-character strings; the audio directory is the set of its entries'   *)
(* names.                                                                  *)
(***************************************************************************)
EXTENDS Naturals, Sequences, FiniteSets

VARIABLES
    dir,             \* names of the entries of audio_dir
    dirOk,           \* whether audio_dir.iterdir() can list the directory
    tracklist,       \* the track list (argument of sort_tracks / content of the file)
    pc,              \* position inside sort_tracks: idle, match, rename, done
    renaming_files,  \* the list built by the first loop of sort_tracks
    renamed,         \* the renames of this call that succeeded, in order
    result,          \* what the last call of sort_tracks produced
    scans,           \* number of iterdir() scans made by this call
    attempts,        \* number of rename() calls made by this call
    dir0,            \* the directory's names when this call started
    prev,            \* what the previous call of sort_tracks produced
    calls,           \* number of calls of sort_tracks so far
    cli_pc,          \* position inside cli: none (sort_tracks called directly), read, ...
    read_raised,     \* whether reading the track-list file raised in cli
    concat_called,   \* whether cli has called concat_tracks
    concat_arg,      \* the list cli passed to concat_tracks
    concat_result    \* what concat_tracks returned to cli

vars == <<dir, dirOk, tracklist, pc, renaming_files, renamed, result, scans,
          attempts, dir0, prev, calls, cli_pc, read_raised, concat_called,
          concat_arg, concat_result>>

----------------------------------------------------------------------------
(* Bounds of the model. *)

MaxTracks == 3   \* longest track list drawn from Titles
MaxFiles == 2    \* most entries of a directory drawn from FileNames
MaxCalls == 2    \* most direct calls of sort_tracks in one behaviour
LongLen == 10    \* length of the long track list (two-digit indices)

----------------------------------------------------------------------------
(* Strings. *)

DigitChars == <<"0", "1", "2", "3", "4", "5", "6", "7", "8", "9">>

\* str(n) for a natural number n
RECURSIVE Str(_)
Str(n) == IF n < 10 THEN <<DigitChars[n + 1]>>
          ELSE Str(n \div 10) \o <<DigitChars[(n % 10) + 1]>>

\* s.zfill(w) for a string of digits s
Zfill(s, w) == IF Len(s) >= w THEN s ELSE [j \in 1..(w - Len(s)) |-> "0"] \o s

\* name.startswith(track)
StartsWithContains(name, track) ==
    \E o \in 0..(Len(name) - Len(track)) :
        SubSeq(name, o + 1, o + Len(track)) = track

StartsWith(name, track) ==
    /\ Len(track) <= Len(name)
    /\ SubSeq(name, 1, Len(track)) = track

\* audio_dir / name
Path(name) == [parent |-> "audio_dir", name |-> name]

\* values of returns.result
NoErr == [type |-> "none", names |-> {}]
Err(type, names) == [type |-> type, names |-> names]
NoResult == [kind |-> "None", paths |-> <<>>, err |-> NoErr]
Success(paths) == [kind |-> "Success", paths |-> paths, err |-> NoErr]
Failure(err) == [kind |-> "Failure", paths |-> <<>>, err |-> err]
\* an exception that leaves the function instead of a returned value
Raised(err) == [kind |-> "Raised", paths |-> <<>>, err |-> err]

----------------------------------------------------------------------------
(* find_target *)

Matched(track, names) == {x \in names : StartsWith(x, track)}

find_targetFirstOfMany(track, names) ==
    LET matched == Matched(track, names)
    IN  IF Cardinality(matched) = 0
        THEN Failure(Err("nomatch", {track}))
        ELSE Success(<<Path(CHOOSE x \in matched : TRUE)>>)

find_target(track, names) ==
    LET matched == Matched(track, names)
    IN  IF Cardinality(matched) > 1
        THEN Failure(Err("multiple", matched))
        ELSE IF Cardinality(matched) = 0
        THEN Failure(Err("nomatch", {track}))
        ELSE Success(<<Path(CHOOSE x \in matched : TRUE)>>)

----------------------------------------------------------------------------
(* sort_tracks *)

HasDuplicatesNever(tl) == Cardinality({tl[j] : j \in DOMAIN tl}) > Len(tl)

HasDuplicates(tl) == Cardinality({tl[j] : j \in DOMAIN tl}) # Len(tl)

IndexDigits(tl) == Len(Str(Len(tl)))

NewNameZeroBased(i, digits, name) ==
    Zfill(Str(i - 1), digits) \o <<" ", "-", " ">> \o name

NewNameUnpadded(i, digits, name) == Str(i) \o <<" ", "-", " ">> \o name

NewName(i, digits, name) == Zfill(Str(i), digits) \o <<" ", "-", " ">> \o name

\* entry of sort_tracks up to the first loop
SortEntry ==
    /\ calls' = calls + 1
    /\ dir0' = dir
    /\ prev' = result
    /\ renaming_files' = <<>>
    /\ renamed' = <<>>
    /\ scans' = 0
    /\ attempts' = 0
    /\ IF HasDuplicates(tracklist)
       THEN /\ result' = Failure(Err("duplicate", {}))
            /\ pc' = "done"
       ELSE /\ result' = NoResult
            /\ pc' = IF Len(tracklist) = 0 THEN "rename" ELSE "match"
    /\ UNCHANGED <<dir, dirOk, tracklist, read_raised, concat_called, concat_arg,
                   concat_result>>

\* a direct call of sort_tracks, the first or a repeated one
SortTracks ==
    /\ cli_pc = "none"
    /\ pc \in {"idle", "done"}
    /\ calls < MaxCalls
    /\ SortEntry
    /\ UNCHANGED cli_pc

\* one iteration of the first loop
MatchStep ==
    /\ pc = "match"
    /\ LET i == Len(renaming_files) + 1
           track == tracklist[i]
           target == find_target(track, dir)
       IN  /\ scans' = scans + 1
           /\ IF ~dirOk
              THEN /\ result' = Raised(Err("ENOENT", {}))
                   /\ pc' = "done"
                   /\ UNCHANGED renaming_files
              ELSE IF target.kind = "Failure"
              THEN /\ result' = Failure(target.err)
                   /\ pc' = "done"
                   /\ UNCHANGED renaming_files
              ELSE /\ renaming_files' = Append(renaming_files,
                          [target |-> target.paths[1],
                           new_name |-> NewName(i, IndexDigits(tracklist),
                                                target.paths[1].name)])
                   /\ pc' = IF i = Len(tracklist) THEN "rename" ELSE "match"
                   /\ UNCHANGED result
    /\ UNCHANGED <<dir, dirOk, tracklist, renamed, attempts, dir0, prev, calls,
                   cli_pc, read_raised, concat_called, concat_arg, concat_result>>

\* the directory after target.rename(audio_dir / new_name) succeeded
AfterRename(names, src, dst) == (names \ {src}) \cup {dst}

\* one iteration of the second loop
RenameStep ==
    /\ pc = "rename"
    /\ attempts < Len(renaming_files)
    /\ LET e == renaming_files[attempts + 1]
           src == e.target.name
       IN  /\ attempts' = attempts + 1
           /\ \/ /\ src \in dir
                 /\ dir' = AfterRename(dir, src, e.new_name)
                 /\ renamed' = Append(renamed, <<src, e.new_name>>)
                 /\ UNCHANGED <<result, pc>>
              \/ /\ result' = Failure(Err(IF src \in dir THEN "EACCES" ELSE "ENOENT", {}))
                 /\ pc' = "done"
                 /\ UNCHANGED <<dir, renamed>>
    /\ UNCHANGED <<dirOk, tracklist, renaming_files, scans, dir0, prev, calls,
                   cli_pc, read_raised, concat_called, concat_arg, concat_result>>

\* the return after the second loop
SortReturn ==
    /\ pc = "rename"
    /\ attempts = Len(renaming_files)
    /\ result' = Success([j \in 1..Len(renaming_files) |->
                             Path(renaming_files[j].new_name)])
    /\ pc' = "done"
    /\ UNCHANGED <<dir, dirOk, tracklist, renaming_files, renamed, scans, attempts,
                   dir0, prev, calls, cli_pc, read_raised, concat_called,
                   concat_arg, concat_result>>

----------------------------------------------------------------------------
(* concat_tracks: every exception of the engine is caught and returned *)

concat_tracks(tracks, engine_raises) ==
    IF engine_raises THEN Failure(Err("engine", {})) ELSE Success(<<>>)

----------------------------------------------------------------------------
(* cli *)

\* isinstance(sorted_tracks, Failure)
SortFailedNever(r) == FALSE

SortFailed(r) == r.kind = "Failure"

\* reading the track-list file
CliRead ==
    /\ cli_pc = "read"
    /\ \E raises \in BOOLEAN :
          /\ read_raised' = raises
          /\ cli_pc' = IF raises THEN "exit1" ELSE "sort"
    /\ UNCHANGED <<dir, dirOk, tracklist, pc, renaming_files, renamed, result,
                   scans, attempts, dir0, prev, calls, concat_called, concat_arg,
                   concat_result>>

\* sorted_tracks = sort_tracks(tracklist, audio_dir): the call
CliSort ==
    /\ cli_pc = "sort"
    /\ pc = "idle"
    /\ SortEntry
    /\ cli_pc' = "sorting"

\* sort_tracks came back to cli
CliSortDone ==
    /\ cli_pc = "sorting"
    /\ pc = "done"
    /\ cli_pc' = IF result.kind = "Raised" THEN "crash"
                 ELSE IF SortFailed(result) THEN "exit1"
                 ELSE "concat"
    /\ UNCHANGED <<dir, dirOk, tracklist, pc, renaming_files, renamed, result,
                   scans, attempts, dir0, prev, calls, read_raised, concat_called,
                   concat_arg, concat_result>>

\* concat_result = concat_tracks(sorted_tracks.unwrap(), output_file)
CliConcat ==
    /\ cli_pc = "concat"
    /\ concat_called' = TRUE
    /\ concat_arg' = result.paths
    /\ \E engine_raises \in BOOLEAN :
          /\ concat_result' = concat_tracks(result.paths, engine_raises)
          /\ cli_pc' = IF concat_result'.kind = "Failure" THEN "exit1" ELSE "exit0"
    /\ UNCHANGED <<dir, dirOk, tracklist, pc, renaming_files, renamed, result,
                   scans, attempts, dir0, prev, calls, read_raised>>

----------------------------------------------------------------------------
(* The inputs: directories and track lists. *)

Stems == {<<"x">>, <<"x", "y">>}

\* entries a directory may hold: plain names, and names left by an earlier run
FileNames == Stems \cup {NewName(i, 1, <<"x">>) : i \in 1..2}

Titles == Stems \cup {<<"1">>, <<"2">>, <<"2", " ">>}

Dirs == {d \in SUBSET FileNames : Cardinality(d) <= MaxFiles}

TrackLists == UNION {[1..n -> Titles] : n \in 0..MaxTracks}

\* a long album whose files are named after the titles, listed in reverse
LongTitle(k) == Str(k) \o <<"x">>
LongList == [k \in 1..LongLen |-> LongTitle(LongLen + 1 - k)]
LongDir == {LongTitle(k) \o <<"y">> : k \in 1..LongLen}

Init ==
    /\ \/ /\ tracklist \in TrackLists
          /\ \/ dirOk = TRUE /\ dir \in Dirs
             \/ dirOk = FALSE /\ dir = {}
       \/ /\ tracklist = LongList
          /\ dir = LongDir
          /\ dirOk = TRUE
    /\ cli_pc \in {"none", "read"}
    /\ pc = "idle"
    /\ renaming_files = <<>>
    /\ renamed = <<>>
    /\ result = NoResult
    /\ scans = 0
    /\ attempts = 0
    /\ dir0 = dir
    /\ prev = NoResult
    /\ calls = 0
    /\ read_raised = FALSE
    /\ concat_called = FALSE
    /\ concat_arg = <<>>
    /\ concat_result = NoResult

Next ==
    \/ SortTracks
    \/ MatchStep
    \/ RenameStep
    \/ SortReturn
    \/ CliRead
    \/ CliSort
    \/ CliSortDone
    \/ CliConcat

Spec == Init /\ [][Next]_vars

TypeOK ==
    /\ pc \in {"idle", "match", "rename", "done"}
    /\ cli_pc \in {"none", "read", "sort", "sorting", "concat", "exit0", "exit1", "crash"}
    /\ result.kind \in {"None", "Success", "Failure", "Raised"}
    /\ attempts <= Len(renaming_files)
    /\ Len(renaming_files) <= Len(tracklist)

----------------------------------------------------------------------------
(* Vocabulary of the properties, stated without the operators of the model. *)

\* t is a literal prefix of s
IsPrefixOf(t, s) ==
    /\ Len(t) <= Len(s)
    /\ \A j \in 1..Len(t) : s[j] = t[j]

\* the entries of names whose name begins with track
FilesFor(track, names) == {x \in names : IsPrefixOf(track, x)}

\* some title occurs at two positions
DuplicateTitle(tl) == \E a, b \in DOMAIN tl : a # b /\ tl[a] = tl[b]

\* every title has exactly one matching entry in names
AllUniquelyMatched(tl, names) ==
    \A j \in DOMAIN tl : Cardinality(FilesFor(tl[j], names)) = 1

\* number of decimal digits of n
DigitCount(n) == IF n < 10 THEN 1 ELSE IF n < 100 THEN 2 ELSE 3

RECURSIVE Pow10(_)
Pow10(e) == IF e = 0 THEN 1 ELSE 10 * Pow10(e - 1)

\* the w decimal digits of i, most significant first
ZeroPad(i, w) == [j \in 1..w |-> DigitChars[((i \div Pow10(w - j)) % 10) + 1]]

\* the characters of the model in code-point order
CodeOrder == <<" ", "-", "0", "1", "2", "3", "4", "5", "6", "7", "8", "9", "x", "y">>
Ord(c) == CHOOSE j \in 1..Len(CodeOrder) : CodeOrder[j] = c

\* s sorts strictly before t
LexLess(s, t) ==
    \E j \in 1..(Len(s) + 1) :
        /\ \A h \in 1..(j - 1) : h <= Len(t) /\ s[h] = t[h]
        /\ \/ j = Len(s) + 1 /\ j <= Len(t)
           \/ j <= Len(s) /\ j <= Len(t) /\ Ord(s[j]) < Ord(t[j])

\* the name the i-th track's file is meant to get
Expected(i, n, name) == ZeroPad(i, DigitCount(n)) \o <<" ", "-", " ">> \o name

Returned == pc = "done" /\ result.kind = "Success"
NTracks == Len(tracklist)

----------------------------------------------------------------------------
(* C1: a track list with a duplicate title makes sort_tracks return a      *)
(* Failure without any filesystem access: no scan of the directory, no     *)
(* rename, the directory as before the call.                               *)
C1_DuplicateRejectedWithoutIO ==
    (calls > 0 /\ DuplicateTitle(tracklist)) =>
        /\ pc = "done"
        /\ result = Failure(Err("duplicate", {}))
        /\ scans = 0
        /\ attempts = 0
        /\ renamed = <<>>
        /\ dir = dir0

\* a duplicate list was rejected although each of its titles had one file
C1_Witness ==
    /\ pc = "done"
    /\ DuplicateTitle(tracklist)
    /\ AllUniquelyMatched(tracklist, dir)
    /\ result.kind = "Failure"

(* C2: no rename happens until every title of the track list has resolved  *)
(* to exactly one file; if some title has zero or several matching files   *)
(* in a directory that can be listed, sort_tracks returns a Failure and    *)
(* the names in the directory are those before the call.                   *)
C2_MatchBeforeRename ==
    /\ (attempts > 0 \/ dir # dir0) =>
          /\ Len(renaming_files) = NTracks
          /\ \A j \in 1..NTracks :
                FilesFor(tracklist[j], dir0) = {renaming_files[j].target.name}
    /\ (pc = "done" /\ dirOk /\ ~AllUniquelyMatched(tracklist, dir0)) =>
          /\ result.kind = "Failure"
          /\ attempts = 0
          /\ dir = dir0

\* a later title had several matching files after earlier titles had matched
C2_Witness ==
    /\ pc = "done"
    /\ Len(renaming_files) >= 1
    /\ result.kind = "Failure"
    /\ result.err.type = "multiple"
    /\ dir = dir0

(* C3 as stated: for a track list without duplicates whose titles each     *)
(* have exactly one matching file, sort_tracks renames the files so that   *)
(* the new names sort in track-list order and each begins with an index of *)
(* DigitCount(n) digits.                                                   *)
OutputOrdered ==
    /\ Len(renamed) = NTracks
    /\ Len(result.paths) = NTracks
    /\ \A a \in 1..NTracks : renamed[a][2] = result.paths[a].name
    /\ \A a, b \in 1..NTracks :
          a < b => LexLess(result.paths[a].name, result.paths[b].name)

UniformWidth ==
    \A a \in 1..Len(result.paths) :
        LET name == result.paths[a].name
            w == DigitCount(NTracks)
        IN  /\ Len(name) >= w + 3
            /\ SubSeq(name, 1, w) = ZeroPad(a, w)
            /\ SubSeq(name, w + 1, w + 3) = <<" ", "-", " ">>

C5_NoExceptionEscapes ==
    /\ pc = "done" => result.kind \in {"Success", "Failure"}
    /\ cli_pc # "crash"

(* C6 as stated: re-applying sort_tracks with the same track list after a  *)
(* successful call changes the directory only if some new name begins with *)
(* an original title; when none does, the second call returns a match      *)
(* Failure and leaves the directory as the first call left it.             *)
SomeNewNameMatches ==
    \E a \in 1..Len(prev.paths), j \in 1..NTracks :
        IsPrefixOf(tracklist[j], prev.paths[a].name)

MatchFailureUnchanged ==
    /\ result.kind = "Failure"
    /\ result.err.type \in {"nomatch", "multiple"}
    /\ attempts = 0
    /\ dir = dir0

C6_Original ==
    (calls >= 2 /\ prev.kind = "Success") =>
        /\ dir # dir0 => SomeNewNameMatches
        /\ (pc = "done" /\ ~SomeNewNameMatches) => MatchFailureUnchanged

(* C6 amended: as stated, for a track list that is not empty; with an     *)
(* empty track list the second call returns Success again and changes      *)
(* nothing.                                                                *)
C6_Reapplied ==
    (calls >= 2 /\ prev.kind = "Success") =>
        /\ dir # dir0 => SomeNewNameMatches
        /\ (pc = "done" /\ ~SomeNewNameMatches /\ NTracks > 0) =>
              MatchFailureUnchanged
        /\ (pc = "done" /\ NTracks = 0) => (result = Success(<<>>) /\ dir = dir0)

\* the second call found no file for the titles the first call had renamed
C6_Witness ==
    /\ calls = 2
    /\ pc = "done"
    /\ prev.kind = "Success"
    /\ NTracks > 0
    /\ ~SomeNewNameMatches
    /\ result.kind = "Failure"
    /\ result.err.type = "nomatch"

(* C7: in cli the stages run in the order read, sort, concatenate, and a   *)
(* failure ends the run before the next stage: concat_tracks is called     *)
(* only after sort_tracks returned Success, with exactly the list it       *)
(* returned, and sort_tracks is never called when the read raised.         *)
C7_StagesInOrder ==
    /\ concat_called =>
          /\ Returned
          /\ calls = 1
          /\ ~read_raised
          /\ concat_arg = result.paths
    /\ read_raised => (calls = 0 /\ pc = "idle" /\ cli_pc = "exit1")
    /\ (cli_pc # "none" /\ pc = "done" /\ result.kind # "Success") =>
          cli_pc \in {"sorting", "exit1", "crash"}
    /\ (concat_called /\ concat_result.kind = "Failure") => cli_pc = "exit1"

\* cli passed two sorted paths on to concat_tracks
C7_Witness ==
    /\ concat_called
    /\ Len(concat_arg) = 2
    /\ cli_pc = "exit0"

(* C8: if the k-th planned rename fails, sort_tracks returns a Failure     *)
(* carrying the error, renames k+1..n are never attempted and the k-1      *)
(* completed renames stay: those files keep their new names and the        *)
(* remaining files keep their original names.                              *)
C8_FirstFailureStops ==
    (pc = "done" /\ attempts > Len(renamed)) =>
        /\ result.kind = "Failure"
        /\ result.err.type \in {"EACCES", "ENOENT"}
        /\ attempts = Len(renamed) + 1
        /\ \A j \in 1..Len(renamed) : renaming_files[j].new_name \in dir
        /\ \A j \in attempts..Len(renaming_files) :
              renaming_files[j].target.name \in dir

(* C9: on Success no file has been lost: the directory holds as many       *)
(* entries as before the call and every returned path names an entry of    *)
(* the directory.                                                          *)
C9_NoFileLost ==
    Returned =>
        /\ Cardinality(dir) = Cardinality(dir0)
        /\ \A a \in 1..Len(result.paths) : result.paths[a].name \in dir

(* C10: on Success the titles were matched to pairwise distinct files; in  *)
(* particular no title of a successfully sorted list is a proper prefix of *)
(* another.                                                                *)
C10_InjectivePlan ==
    Returned =>
        /\ \A a, b \in 1..Len(renaming_files) :
              a # b => renaming_files[a].target # renaming_files[b].target
        /\ \A a, b \in 1..NTracks :
              a # b => ~IsPrefixOf(tracklist[a], tracklist[b])

====
